---------------------------- MODULE Spec2Model ----------------------------
(* Identity reconciliation service: POST /identify (routes/identify.ts)    *)
(* calling identifyContact (services/contact.service.ts) on a Contact      *)
(* table.  Spec handles the requests one after the other, each as a whole. *)
(* CrashSpec and ConcSpec run identifyContact one store operation at a     *)
(* time: in CrashSpec a store operation may fail, in ConcSpec the store    *)
(* operations of two requests interleave as well.                          *)
EXTENDS Integers, Sequences, FiniteSets, TLC

(***************************************************************************)
(* Values.  A string is a sequence of one-character strings, so that       *)
(* String.prototype.trim can be computed.  null / undefined is a one-       *)
(* element tuple whose element is not a character: it differs from every   *)
(* string, the empty string included.                                      *)
(***************************************************************************)
Null == <<"null">>

EmptyString == << >>

\* linkedId: number | null -- ids are positive, 0 stands for null.
NullId == 0

\* Bound: the number of rows the Contact table may hold.
MaxContacts == 3

\* Bound: how many times a row may be created in the same millisecond as the
\* row created before it.
MaxTies == 1

\* Request body fields the clients send (absent, empty, blank, padded, plain).
RawEmails == {Null, <<" ">>, <<"a", " ">>}

RawPhones == {Null, EmptyString, <<"p">>, <<" ", "q">>}

VARIABLES
    contacts,   \* the Contact table: contacts[id] is the row with that id
    order,      \* the ids in the order an ORDER BY createdAt ASC scan returns them
    now,        \* the database clock (millisecond resolution)
    status,     \* HTTP status of the last request, 0 before the first one
    args,       \* <<email, phoneNumber>> the last request passed to identifyContact (Spec)
    response,   \* the IdentifyResponse.contact the last request was answered with
    writes,     \* the store writes the last request issued, in order (Spec)
    calls       \* calls[p]: the locals of the identifyContact call request slot p runs

vars == <<contacts, order, now, status, args, response, writes, calls>>

\* args when the request did not reach identifyContact
NoCall == << >>

NoResponse == [primaryContatctId |-> NullId, emails |-> << >>,
               phoneNumbers |-> << >>, secondaryContactIds |-> << >>]

(***************************************************************************)
(* JavaScript helpers                                                      *)
(***************************************************************************)
\* Mutant of Truthy: only null is falsy.
TruthyNotNull(v) == v # Null

\* Truthiness of a string | null | undefined value: null and "" are falsy.
Truthy(v) == v # Null /\ v # EmptyString

RECURSIVE TrimStart(_)
TrimStart(s) == IF s # << >> /\ Head(s) = " " THEN TrimStart(Tail(s)) ELSE s

RECURSIVE TrimEnd(_)
TrimEnd(s) == IF s # << >> /\ s[Len(s)] = " " THEN TrimEnd(SubSeq(s, 1, Len(s) - 1)) ELSE s

\* String(v).trim()
Trim(s) == TrimEnd(TrimStart(s))

\* const emailStr = email ? String(email).trim() : null;
Normalize(v) == IF Truthy(v) THEN Trim(v) ELSE Null

\* Array.prototype.includes
Includes(seq, v) == \E i \in 1..Len(seq) : seq[i] = v

(***************************************************************************)
(* The Contact table (Prisma client)                                       *)
(***************************************************************************)
Ids(cs) == 1..Len(cs)

\* Every order in which ORDER BY createdAt ASC may return the rows S of cs:
\* ascending createdAt, rows of equal createdAt in any order.
RECURSIVE ScanOrders(_, _)
ScanOrders(cs, S) ==
    IF S = {} THEN {<< >>}
    ELSE LET first == {id \in S : \A other \in S : cs[id].createdAt <= cs[other].createdAt}
         IN  UNION {{<<id>> \o rest : rest \in ScanOrders(cs, S \ {id})} : id \in first}

TieOrders(cs) == ScanOrders(cs, Ids(cs))

\* findMany({ where, orderBy: { createdAt: "asc" } }): the rows whose id is in S
OrderedRows(cs, ord, S) ==
    LET picked == SelectSeq(ord, LAMBDA id : id \in S)
    IN  [i \in 1..Len(picked) |-> cs[picked[i]]]

\* Mutant of MatchIds: the conditions are joined by AND instead of OR.
MatchIdsAll(cs, email, phoneNumber) ==
    {id \in Ids(cs) :
        /\ Truthy(email) \/ Truthy(phoneNumber)
        /\ Truthy(email) => cs[id].email = email
        /\ Truthy(phoneNumber) => cs[id].phoneNumber = phoneNumber}

\* where: { OR: conditions } with the conditions identifyContact pushes
MatchIds(cs, email, phoneNumber) ==
    {id \in Ids(cs) :
        \/ Truthy(email) /\ cs[id].email = email
        \/ Truthy(phoneNumber) /\ cs[id].phoneNumber = phoneNumber}

\* Mutant of ChildIds: the primary itself is selected too.
ChildIdsAndSelf(cs, id) == {c \in Ids(cs) : c = id \/ cs[c].linkedId = id}

\* where: { linkedId: id }
ChildIds(cs, id) == {c \in Ids(cs) : cs[c].linkedId = id}

\* where: { OR: [{ id }, { linkedId: id }] }
LinkedIds(cs, id) == {c \in Ids(cs) : c = id \/ cs[c].linkedId = id}

\* prisma.contact.create: id auto-increment, createdAt = now()
Create(cs, email, phoneNumber, linkedId, linkPrecedence, t) ==
    Append(cs, [id |-> Len(cs) + 1, email |-> email, phoneNumber |-> phoneNumber,
                linkedId |-> linkedId, linkPrecedence |-> linkPrecedence,
                createdAt |-> t])

\* Mutant of Update: linkPrecedence is left out of data.
UpdateLinkedIdOnly(cs, id, linkedId, linkPrecedence) == [cs EXCEPT ![id].linkedId = linkedId]

\* Mutant of Update: the canonical primary is demoted under the other primary.
UpdateSwapped(cs, id, linkedId, linkPrecedence) ==
    [cs EXCEPT ![linkedId] = [@ EXCEPT !.linkedId = id, !.linkPrecedence = linkPrecedence]]

\* prisma.contact.update({ where: { id }, data: { linkedId, linkPrecedence } })
Update(cs, id, linkedId, linkPrecedence) ==
    [cs EXCEPT ![id].linkedId = linkedId, ![id].linkPrecedence = linkPrecedence]

\* Mutant of UpdateMany: the children of a demoted primary are not re-parented.
UpdateManyNothing(cs, old, new) == cs

\* prisma.contact.updateMany({ where: { linkedId: old }, data: { linkedId: new } })
UpdateMany(cs, old, new) ==
    [i \in Ids(cs) |-> IF cs[i].linkedId = old THEN [cs[i] EXCEPT !.linkedId = new]
                                              ELSE cs[i]]

(***************************************************************************)
(* contact.service.ts                                                      *)
(***************************************************************************)
RECURSIVE findPrimaryContact(_, _)
findPrimaryContact(cs, current) ==
    IF current.linkedId = NullId THEN current
    ELSE IF current.linkedId \notin Ids(cs) THEN current
    ELSE findPrimaryContact(cs, cs[current.linkedId])

\* if (v && !list.includes(v)) list.push(v)
PushNew(list, v) == IF Truthy(v) /\ ~Includes(list, v) THEN Append(list, v) ELSE list

RECURSIVE CollectEmails(_, _, _)
CollectEmails(list, scs, i) ==
    IF i > Len(scs) THEN list
    ELSE CollectEmails(PushNew(list, scs[i].email), scs, i + 1)

RECURSIVE CollectPhones(_, _, _)
CollectPhones(list, scs, i) ==
    IF i > Len(scs) THEN list
    ELSE CollectPhones(PushNew(list, scs[i].phoneNumber), scs, i + 1)

buildResponse(cs, ord, primaryContact) ==
    LET secondaryContacts == OrderedRows(cs, ord, ChildIds(cs, primaryContact.id))
        emails0 == IF Truthy(primaryContact.email) THEN <<primaryContact.email>> ELSE << >>
        phones0 == IF Truthy(primaryContact.phoneNumber)
                   THEN <<primaryContact.phoneNumber>> ELSE << >>
    IN  [primaryContatctId |-> primaryContact.id,
         emails |-> CollectEmails(emails0, secondaryContacts, 1),
         phoneNumbers |-> CollectPhones(phones0, secondaryContacts, 1),
         secondaryContactIds |->
             [i \in 1..Len(secondaryContacts) |-> secondaryContacts[i].id]]

\* primarySet: a Map keyed by primary id; its values in first-insertion order
RECURSIVE PrimarySet(_, _, _, _)
PrimarySet(cs, matchingContacts, i, acc) ==
    IF i > Len(matchingContacts) THEN acc
    ELSE LET primary == findPrimaryContact(cs, matchingContacts[i])
         IN  PrimarySet(cs, matchingContacts, i + 1,
                 IF \E k \in 1..Len(acc) : acc[k].id = primary.id
                 THEN acc ELSE Append(acc, primary))

\* Mutant of SortByCreatedAt: the primaries are left in insertion order.
SortNothing(seq) == seq

\* Mutant of SortByCreatedAt: the comparator is flipped (b.createdAt - a.createdAt).
RECURSIVE SortNewestFirst(_)
SortNewestFirst(seq) ==
    IF Len(seq) <= 1 THEN seq
    ELSE LET k == CHOOSE k \in 1..Len(seq) :
                     /\ \A j \in 1..Len(seq) : seq[k].createdAt >= seq[j].createdAt
                     /\ \A j \in 1..(k - 1) : seq[j].createdAt < seq[k].createdAt
             rest == [j \in 1..(Len(seq) - 1) |-> IF j < k THEN seq[j] ELSE seq[j + 1]]
         IN  <<seq[k]>> \o SortNewestFirst(rest)

\* [...].sort((a, b) => a.createdAt - b.createdAt): Array.prototype.sort is stable
RECURSIVE SortByCreatedAt(_)
SortByCreatedAt(seq) ==
    IF Len(seq) <= 1 THEN seq
    ELSE LET k == CHOOSE k \in 1..Len(seq) :
                     /\ \A j \in 1..Len(seq) : seq[k].createdAt <= seq[j].createdAt
                     /\ \A j \in 1..(k - 1) : seq[j].createdAt > seq[k].createdAt
             rest == [j \in 1..(Len(seq) - 1) |-> IF j < k THEN seq[j] ELSE seq[j + 1]]
         IN  <<seq[k]>> \o SortByCreatedAt(rest)

\* for (let i = 1; i < primaries.length; i++) { update; updateMany }
\* st = [cs |-> table, log |-> writes issued]
RECURSIVE MergeLoop(_, _, _)
MergeLoop(st, primaries, i) ==
    IF i > Len(primaries) THEN st
    ELSE LET canonicalPrimary == primaries[1]
             otherPrimary == primaries[i]
             cs1 == Update(st.cs, otherPrimary.id, canonicalPrimary.id, "secondary")
             cs2 == UpdateMany(cs1, otherPrimary.id, canonicalPrimary.id)
             log == st.log \o
                    <<[op |-> "update", id |-> otherPrimary.id,
                       linkedId |-> canonicalPrimary.id, rows |-> {otherPrimary.id}],
                      [op |-> "updateMany", id |-> otherPrimary.id,
                       linkedId |-> canonicalPrimary.id,
                       rows |-> ChildIds(cs1, otherPrimary.id)]>>
         IN  MergeLoop([cs |-> cs2, log |-> log], primaries, i + 1)

CreateLog(cs) == [op |-> "create", id |-> Len(cs), linkedId |-> cs[Len(cs)].linkedId,
                  rows |-> {Len(cs)}]

\* Mutant of HasNewInfo: every call with a match adds a row.
HasNewInfoAlways(email, phoneNumber, existingEmails, existingPhones) == TRUE

\* Mutant of HasNewInfo: a row is created only when both fields are new.
HasNewInfoBoth(email, phoneNumber, existingEmails, existingPhones) ==
    /\ email # Null /\ email \notin existingEmails
    /\ phoneNumber # Null /\ phoneNumber \notin existingPhones

\* hasNewEmail || hasNewPhone
HasNewInfo(email, phoneNumber, existingEmails, existingPhones) ==
    LET hasNewEmail == email # Null /\ email \notin existingEmails
        hasNewPhone == phoneNumber # Null /\ phoneNumber \notin existingPhones
    IN  hasNewEmail \/ hasNewPhone

\* identifyContact(email, phoneNumber) up to its final buildResponse call, on
\* table cs scanned in order ord; a row it creates gets createdAt t.
\* Result: [cs |-> table, log |-> writes issued, primary |-> buildResponse's argument]
identifyContact(cs, ord, email, phoneNumber, t) ==
    LET matchingContacts == OrderedRows(cs, ord, MatchIds(cs, email, phoneNumber))
    IN  IF Len(matchingContacts) = 0
        THEN LET cs1 == Create(cs, email, phoneNumber, NullId, "primary", t)
                 newContact == cs1[Len(cs1)]
             IN  [cs |-> cs1, log |-> <<CreateLog(cs1)>>, primary |-> newContact]
        ELSE LET primaries == SortByCreatedAt(PrimarySet(cs, matchingContacts, 1, << >>))
                 canonicalPrimary == primaries[1]
                 merged == IF Len(primaries) > 1
                           THEN MergeLoop([cs |-> cs, log |-> << >>], primaries, 2)
                           ELSE [cs |-> cs, log |-> << >>]
                 allLinked == LinkedIds(merged.cs, canonicalPrimary.id)
                 existingEmails == {merged.cs[c].email : c \in allLinked} \ {Null, EmptyString}
                 existingPhones ==
                     {merged.cs[c].phoneNumber : c \in allLinked} \ {Null, EmptyString}
                 hasNew == HasNewInfo(email, phoneNumber, existingEmails, existingPhones)
                 cs3 == IF hasNew
                        THEN Create(merged.cs, email, phoneNumber, canonicalPrimary.id,
                                    "secondary", t)
                        ELSE merged.cs
                 log3 == IF hasNew
                         THEN merged.log \o <<CreateLog(cs3)>> ELSE merged.log
             IN  [cs |-> cs3, log |-> log3, primary |-> canonicalPrimary]

(***************************************************************************)
(* identifyContact one store operation at a time.  Every await of a Prisma *)
(* call is a point where another request's store operations may run or the *)
(* store may fail; what the function computes between two awaits is local. *)
(***************************************************************************)
\* The request slots: at most two requests are in flight at a time.
Procs == {1, 2}

NoContact == [id |-> NullId, email |-> Null, phoneNumber |-> Null, linkedId |-> NullId,
              linkPrecedence |-> "primary", createdAt |-> 0]

\* pc: the store operation the call awaits next; matching, k, current: the loop over
\* matchingContacts and findPrimaryContact's cursor; primaries: primarySet, then the
\* sorted primaries; i: the merge loop's index.
IdleCall == [pc |-> "idle", email |-> Null, phoneNumber |-> Null, matching |-> << >>,
             k |-> 0, current |-> NoContact, primaries |-> << >>, i |-> 0]

\* primarySet.set(primary.id, primary): a known key keeps its place, the value is replaced
SetPrimary(acc, primary) ==
    IF \E j \in 1..Len(acc) : acc[j].id = primary.id
    THEN [j \in 1..Len(acc) |-> IF acc[j].id = primary.id THEN primary ELSE acc[j]]
    ELSE Append(acc, primary)

\* From the loop over matchingContacts to the next await: a contact with no linkedId
\* is its own primary; after the loop the primaries are sorted and the merge starts.
RECURSIVE Resolve(_)
Resolve(c) ==
    IF c.k > Len(c.matching)
    THEN LET primaries == SortByCreatedAt(c.primaries)
         IN  [c EXCEPT !.pc = IF Len(primaries) > 1 THEN "update" ELSE "findLinked",
                       !.primaries = primaries, !.i = 2,
                       !.matching = << >>, !.k = 0, !.current = NoContact]
    ELSE IF c.current.linkedId = NullId
         THEN Resolve([c EXCEPT !.primaries = SetPrimary(c.primaries, c.current),
                                !.k = c.k + 1,
                                !.current = IF c.k + 1 <= Len(c.matching)
                                            THEN c.matching[c.k + 1] ELSE NoContact])
         ELSE [c EXCEPT !.pc = "findUnique"]

\* await prisma.contact.findMany({ where: { OR: conditions }, orderBy }) and what follows
AfterFindMatching(cs, ord, email, phoneNumber) ==
    LET matchingContacts == OrderedRows(cs, ord, MatchIds(cs, email, phoneNumber))
        c == [IdleCall EXCEPT !.email = email, !.phoneNumber = phoneNumber]
    IN  IF Len(matchingContacts) = 0
        THEN [c EXCEPT !.pc = "createPrimary"]
        ELSE Resolve([c EXCEPT !.matching = matchingContacts, !.k = 1,
                               !.current = matchingContacts[1]])

\* const parent = await prisma.contact.findUnique(...); if (!parent) break; current = parent
AfterFindUnique(cs, c) ==
    IF c.current.linkedId \in Ids(cs)
    THEN Resolve([c EXCEPT !.current = cs[c.current.linkedId]])
    ELSE Resolve([c EXCEPT !.current = [c.current EXCEPT !.linkedId = NullId]])

\* A row created while other requests may be in flight: createdAt strictly increases
\* with creation order in the step-wise specifications.
StrictCreatedAt(cs, clock) == IF cs = << >> THEN clock ELSE clock + 1

\* The step-wise specifications keep status and response of the last request
\* answered; args and writes are recorded by Spec only.
FindMatching(p, email, phoneNumber) ==
    LET emailStr == Normalize(email)
        phoneStr == Normalize(phoneNumber)
    IN  /\ calls[p].pc = "idle"
        /\ Truthy(emailStr) \/ Truthy(phoneStr)
        /\ calls' = [calls EXCEPT ![p] = AfterFindMatching(contacts, order, emailStr, phoneStr)]
        /\ UNCHANGED <<contacts, order, now, status, args, response, writes>>

FindUnique(p) ==
    /\ calls[p].pc = "findUnique"
    /\ calls' = [calls EXCEPT ![p] = AfterFindUnique(contacts, calls[p])]
    /\ UNCHANGED <<contacts, order, now, status, args, response, writes>>

\* await prisma.contact.update({ where: { id: otherPrimary.id }, data: {...} })
Demote(p) ==
    LET c == calls[p]
    IN  /\ c.pc = "update"
        /\ contacts' = Update(contacts, c.primaries[c.i].id, c.primaries[1].id, "secondary")
        /\ calls' = [calls EXCEPT ![p].pc = "updateMany"]
        /\ UNCHANGED <<order, now, status, args, response, writes>>

\* await prisma.contact.updateMany({ where: { linkedId: otherPrimary.id }, data: {...} })
Reparent(p) ==
    LET c == calls[p]
    IN  /\ c.pc = "updateMany"
        /\ contacts' = UpdateMany(contacts, c.primaries[c.i].id, c.primaries[1].id)
        /\ calls' = [calls EXCEPT ![p].i = c.i + 1,
                                  ![p].pc = IF c.i + 1 <= Len(c.primaries)
                                            THEN "update" ELSE "findLinked"]
        /\ UNCHANGED <<order, now, status, args, response, writes>>

\* const allLinked = await prisma.contact.findMany(...); hasNewEmail, hasNewPhone
FindLinked(p) ==
    LET c == calls[p]
        allLinked == LinkedIds(contacts, c.primaries[1].id)
        existingEmails == {contacts[r].email : r \in allLinked} \ {Null, EmptyString}
        existingPhones == {contacts[r].phoneNumber : r \in allLinked} \ {Null, EmptyString}
    IN  /\ c.pc = "findLinked"
        /\ calls' = [calls EXCEPT
                       ![p].pc = IF HasNewInfo(c.email, c.phoneNumber,
                                               existingEmails, existingPhones)
                                 THEN "create" ELSE "respond"]
        /\ UNCHANGED <<contacts, order, now, status, args, response, writes>>

\* await prisma.contact.create(...): the new primary (no match) or the new secondary
CreateContact(p) ==
    LET c == calls[p]
        t == StrictCreatedAt(contacts, now)
        cs1 == IF c.pc = "createPrimary"
               THEN Create(contacts, c.email, c.phoneNumber, NullId, "primary", t)
               ELSE Create(contacts, c.email, c.phoneNumber, c.primaries[1].id,
                           "secondary", t)
    IN  /\ c.pc \in {"createPrimary", "create"}
        /\ Len(contacts) < MaxContacts
        /\ contacts' = cs1
        /\ order' = Append(order, Len(cs1))
        /\ now' = t
        /\ calls' = [calls EXCEPT ![p].pc = "respond",
                                  ![p].primaries = IF c.pc = "createPrimary"
                                                   THEN <<cs1[Len(cs1)]>> ELSE c.primaries]
        /\ UNCHANGED <<status, args, response, writes>>

\* return buildResponse(...); res.status(200).json(result)
Respond(p) ==
    /\ calls[p].pc = "respond"
    /\ status' = 200
    /\ response' = buildResponse(contacts, order, calls[p].primaries[1])
    /\ calls' = [calls EXCEPT ![p] = IdleCall]
    /\ UNCHANGED <<contacts, order, now, args, writes>>

\* The first findMany throws: catch (error) { res.status(500)... }
FirstReadFails(p, email, phoneNumber) ==
    /\ calls[p].pc = "idle"
    /\ Truthy(Normalize(email)) \/ Truthy(Normalize(phoneNumber))
    /\ status' = 500
    /\ response' = NoResponse
    /\ UNCHANGED <<contacts, order, now, args, writes, calls>>

\* The awaited store operation throws: catch (error) { res.status(500)... }
Fail(p) ==
    /\ calls[p].pc # "idle"
    /\ status' = 500
    /\ response' = NoResponse
    /\ calls' = [calls EXCEPT ![p] = IdleCall]
    /\ UNCHANGED <<contacts, order, now, args, writes>>

\* if (!emailStr && !phoneStr) { res.status(400)...; return; }
Reject(p, email, phoneNumber) ==
    /\ calls[p].pc = "idle"
    /\ ~Truthy(Normalize(email)) /\ ~Truthy(Normalize(phoneNumber))
    /\ status' = 400
    /\ response' = NoResponse
    /\ UNCHANGED <<contacts, order, now, args, writes, calls>>

\* One step of the request in slot p, its body drawn from emails x phoneNumbers.
Step(p, emails, phoneNumbers) ==
    \/ \E email \in emails, phoneNumber \in phoneNumbers :
           \/ Reject(p, email, phoneNumber)
           \/ FindMatching(p, email, phoneNumber)
           \/ FirstReadFails(p, email, phoneNumber)
    \/ FindUnique(p)
    \/ Demote(p)
    \/ Reparent(p)
    \/ FindLinked(p)
    \/ CreateContact(p)
    \/ Respond(p)
    \/ Fail(p)

(***************************************************************************)
(* routes/identify.ts                                                      *)
(***************************************************************************)
Init ==
    /\ contacts = << >>
    /\ order = << >>
    /\ now = 1
    /\ status = 0
    /\ args = NoCall
    /\ response = NoResponse
    /\ writes = << >>
    /\ calls = [p \in Procs |-> IdleCall]

\* if (!emailStr && !phoneStr) { res.status(400)...; return; }
PostRejected(email, phoneNumber) ==
    LET emailStr == Normalize(email)
        phoneStr == Normalize(phoneNumber)
    IN  /\ ~Truthy(emailStr) /\ ~Truthy(phoneStr)
        /\ status' = 400
        /\ args' = NoCall
        /\ response' = NoResponse
        /\ writes' = << >>
        /\ UNCHANGED <<contacts, order, now, calls>>

\* The number of rows created in the same millisecond as the row before them.
Ties(cs) == Cardinality({i \in 1..(Len(cs) - 1) : cs[i].createdAt = cs[i + 1].createdAt})

\* The createdAt a row created now may get: the clock has millisecond resolution,
\* so it equals the previous row's createdAt or is later (only differences between
\* timestamps are observable: the first row gets the initial clock value).
CreatedAtChoices(cs, clock) ==
    IF cs = << >> THEN {clock}
    ELSE IF Ties(cs) < MaxTies THEN {clock, clock + 1}
    ELSE {clock + 1}

\* const result = await identifyContact(emailStr, phoneStr); res.status(200).json(result)
\* The scan order of equal-createdAt rows is the database's choice; it stays the
\* same while no row is written.
PostIdentify(email, phoneNumber) ==
    LET emailStr == Normalize(email)
        phoneStr == Normalize(phoneNumber)
        creates == Len(identifyContact(contacts, order, emailStr, phoneStr, now).cs)
                       > Len(contacts)
    IN  /\ Truthy(emailStr) \/ Truthy(phoneStr)
        /\ \E t \in (IF creates THEN CreatedAtChoices(contacts, now) ELSE {now}) :
             LET r == identifyContact(contacts, order, emailStr, phoneStr, t)
             IN  /\ Len(r.cs) <= MaxContacts
                 /\ \E ord2 \in (IF r.log = << >> THEN {order} ELSE TieOrders(r.cs)) :
                      /\ contacts' = r.cs
                      /\ order' = ord2
                      /\ now' = t
                      /\ status' = 200
                      /\ args' = <<emailStr, phoneStr>>
                      /\ response' = buildResponse(r.cs, ord2, r.primary)
                      /\ writes' = r.log
                      /\ UNCHANGED calls

Next ==
    \E email \in RawEmails, phoneNumber \in RawPhones :
        \/ PostRejected(email, phoneNumber)
        \/ PostIdentify(email, phoneNumber)

Spec == Init /\ [][Next]_vars

\* One request at a time, whose store operations may fail.
CrashNext == Step(1, RawEmails, RawPhones)

CrashSpec == Init /\ [][CrashNext]_vars

\* The request bodies of the interleaved runs.
ConcEmails == {Null, <<"a", " ">>}

ConcPhones == {Null, <<"p">>, <<" ", "q">>}

\* Two request slots whose store operations interleave and may fail.  A request
\* that arrives while no other is in flight takes slot 1.
ConcNext ==
    \/ Step(1, ConcEmails, ConcPhones)
    \/ calls[1].pc # "idle" /\ Step(2, ConcEmails, ConcPhones)

ConcSpec == Init /\ [][ConcNext]_vars

(***************************************************************************)
(* Vocabulary of the properties                                            *)
(***************************************************************************)
\* Two rows are linked when one's linkedId is the other's id.
Linked(cs, i, j) == cs[i].linkedId = j \/ cs[j].linkedId = i

RECURSIVE Grow(_, _)
Grow(cs, S) ==
    LET T == S \cup {j \in Ids(cs) : \E i \in S : Linked(cs, i, j)}
    IN  IF T = S THEN S ELSE Grow(cs, T)

\* The identity group of row id: the maximal set of rows connected via linkedId.
Group(cs, id) == Grow(cs, {id})

Range(seq) == {seq[i] : i \in 1..Len(seq)}

IsPrimary(cs, id) == cs[id].linkPrecedence = "primary"

\* The last request reached identifyContact and was answered.
Completed == status = 200

\* Some row holds the given value in that field (a null input names no value).
HasEmail(cs, S, email) == email # Null /\ \E r \in S : cs[r].email = email

HasPhone(cs, S, phoneNumber) == phoneNumber # Null /\ \E r \in S : cs[r].phoneNumber = phoneNumber

\* No row written: every write issued touched no row.
NoRowWritten(log) == \A w \in Range(log) : w.rows = {}

\* seq lists no value twice.
NoDuplicates(seq) == \A i, j \in 1..Len(seq) : i # j => seq[i] # seq[j]

\* The createdAt of the earliest secondary of primary P whose email is v.
FirstEmailCarrier(cs, P, v) ==
    LET times == {cs[r].createdAt : r \in {c \in Ids(cs) : cs[c].linkedId = P /\ cs[c].email = v}}
    IN  CHOOSE t \in times : \A u \in times : t <= u

\* The createdAt of the earliest secondary of primary P whose phoneNumber is v.
FirstPhoneCarrier(cs, P, v) ==
    LET times == {cs[r].createdAt :
                     r \in {c \in Ids(cs) : cs[c].linkedId = P /\ cs[c].phoneNumber = v}}
    IN  CHOOSE t \in times : \A u \in times : t <= u

\* The primaries the rows matching (email, phoneNumber) resolve to.
MatchedPrimaries(cs, email, phoneNumber) ==
    {findPrimaryContact(cs, cs[m]).id : m \in MatchIds(cs, email, phoneNumber)}

\* The writes of the last request that demoted a primary.
Demotions == {w \in Range(writes) : w.op = "update"}

\* The writes of the last request that created a row.
Creations == {w \in Range(writes) : w.op = "create"}

(***************************************************************************)
(* C1: after every completed call of a sequential run, every identity      *)
(* group has exactly one primary row and every other row of the group is   *)
(* secondary with linkedId equal to that primary's id.                     *)
(***************************************************************************)
C1_GroupsFlat ==
    \A id \in Ids(contacts) :
        \E p \in Group(contacts, id) :
            /\ IsPrimary(contacts, p)
            /\ \A r \in Group(contacts, id) \ {p} :
                   /\ contacts[r].linkPrecedence = "secondary"
                   /\ contacts[r].linkedId = p

\* A merge that demoted a primary and re-parented a child of it has completed.
C1_Witness ==
    /\ Completed
    /\ \E w \in Range(writes) : w.op = "updateMany" /\ w.rows # {}
    /\ \E id \in Ids(contacts) : Cardinality(Group(contacts, id)) >= 3

(***************************************************************************)
(* C2: after every completed call of a sequential run, no row of a group   *)
(* has a smaller createdAt than the group's primary.                       *)
(***************************************************************************)
C2_PrimaryIsEarliest ==
    \A p \in Ids(contacts) :
        IsPrimary(contacts, p) =>
            \A r \in Group(contacts, p) : contacts[p].createdAt <= contacts[r].createdAt

\* A merge has completed whose demoted row is strictly younger than its new primary.
C2_Witness ==
    /\ Completed
    /\ \E w \in Demotions : contacts[w.id].createdAt > contacts[w.linkedId].createdAt

(***************************************************************************)
(* C3: when the rows matched by a call resolve to two distinct primaries,  *)
(* the one with the smaller createdAt stays primary, the other becomes     *)
(* secondary with linkedId = the older one's id, and the response names    *)
(* the older one as primaryContatctId and lists the demoted one among      *)
(* secondaryContactIds.                                                    *)
(***************************************************************************)
C3_MergeOldestWins ==
    [][status' = 200 =>
         LET prim == MatchedPrimaries(contacts, args'[1], args'[2])
         IN  \A older, newer \in prim :
                 (/\ Cardinality(prim) = 2
                  /\ contacts[older].createdAt < contacts[newer].createdAt)
                 => /\ contacts'[older].linkPrecedence = "primary"
                    /\ contacts'[older].linkedId = NullId
                    /\ contacts'[newer].linkPrecedence = "secondary"
                    /\ contacts'[newer].linkedId = older
                    /\ response'.primaryContatctId = older
                    /\ newer \in Range(response'.secondaryContactIds)]_vars

\* A call given an email and a phone has demoted the younger of two primaries.
C3_Witness ==
    /\ Completed
    /\ Truthy(args[1]) /\ Truthy(args[2])
    /\ \E w \in Demotions :
           /\ contacts[w.id].createdAt > contacts[w.linkedId].createdAt
           /\ contacts[w.id].linkPrecedence = "secondary"
           /\ IsPrimary(contacts, w.linkedId)
           /\ response.primaryContatctId = w.linkedId
           /\ w.id \in Range(response.secondaryContactIds)

(***************************************************************************)
(* C4: when a merge demotes a primary D under the canonical primary C,     *)
(* every row whose linkedId was D before the call has linkedId = C after   *)
(* it, and is listed in the response's secondaryContactIds.                *)
(***************************************************************************)
C4_TransitiveRepoint ==
    [][status' = 200 =>
         \A D \in Ids(contacts) :
             (IsPrimary(contacts, D) /\ ~IsPrimary(contacts', D))
             => \A r \in Ids(contacts) :
                    contacts[r].linkedId = D
                    => /\ contacts'[r].linkedId = contacts'[D].linkedId
                       /\ r \in Range(response'.secondaryContactIds)]_vars

\* A merge has moved a child of the demoted primary under the canonical primary.
C4_Witness ==
    /\ Completed
    /\ \E w \in Range(writes) :
           /\ w.op = "updateMany"
           /\ w.rows # {}
           /\ \A r \in w.rows : contacts[r].linkedId = w.linkedId /\ r # w.id
           /\ contacts[w.id].linkedId = w.linkedId
           /\ w.rows \subseteq Range(response.secondaryContactIds)

(***************************************************************************)
(* C5: when identifyContact(e, p) has completed and is called again with   *)
(* the same (e, p) and no call in between, the second call writes no row   *)
(* and returns the same response.                                          *)
(***************************************************************************)
C5_Idempotent ==
    [][(status = 200 /\ status' = 200 /\ args' = args)
       => (NoRowWritten(writes') /\ contacts' = contacts /\ response' = response)]_vars

(***************************************************************************)
(* C6: when the matched rows resolve to the single primary C and the       *)
(* input email is non-null and not an email of C's group, or the input     *)
(* phone is non-null and not a phone of C's group, the call creates        *)
(* exactly one row, secondary, linkedId = C, with the given email and      *)
(* phone, changes no existing row, and lists the new row's id in the       *)
(* response's secondaryContactIds.                                         *)
(***************************************************************************)
C6_NewFieldLinking ==
    [][status' = 200 =>
         LET email == args'[1]
             phoneNumber == args'[2]
             prim == MatchedPrimaries(contacts, email, phoneNumber)
             new == Len(contacts) + 1
         IN  \A C \in prim :
                 (/\ prim = {C}
                  /\ \/ email # Null /\ ~HasEmail(contacts, Group(contacts, C), email)
                     \/ phoneNumber # Null
                            /\ ~HasPhone(contacts, Group(contacts, C), phoneNumber))
                 => /\ Len(contacts') = new
                    /\ contacts'[new] = [id |-> new, email |-> email,
                                         phoneNumber |-> phoneNumber, linkedId |-> C,
                                         linkPrecedence |-> "secondary",
                                         createdAt |-> contacts'[new].createdAt]
                    /\ \A id \in Ids(contacts) : contacts'[id] = contacts[id]
                    /\ new \in Range(response'.secondaryContactIds)]_vars

\* A call whose phone was known and whose email was new has added one secondary.
C6_Witness ==
    /\ Completed
    /\ Len(writes) = 1
    /\ \E w \in Creations :
           /\ w.linkedId # NullId
           /\ w.id = Len(contacts)
           /\ Truthy(args[1]) /\ Truthy(args[2])
           /\ contacts[w.id].email = args[1]
           /\ ~HasEmail(contacts, Ids(contacts) \ {w.id}, args[1])
           /\ HasPhone(contacts, Ids(contacts) \ {w.id}, args[2])
           /\ w.id \in Range(response.secondaryContactIds)

(***************************************************************************)
(* C7: when the input email and the input phone (each that is non-null)    *)
(* already occur in one and the same identity group, possibly on two       *)
(* different rows, the call leaves the store unchanged.                    *)
(***************************************************************************)
C7_FieldSetNovelty ==
    [][status' = 200 =>
         LET email == args'[1]
             phoneNumber == args'[2]
         IN  (\E id \in Ids(contacts) :
                  /\ email # Null => HasEmail(contacts, Group(contacts, id), email)
                  /\ phoneNumber # Null
                         => HasPhone(contacts, Group(contacts, id), phoneNumber))
             => (contacts' = contacts /\ NoRowWritten(writes'))]_vars

(***************************************************************************)
(* C8: when no stored row has the given email or the given phone, the call *)
(* creates exactly one row, primary, linkedId = null, with the given email *)
(* and phone, changes no existing row, and answers with the new row's id   *)
(* as primaryContatctId and no secondaryContactIds.                        *)
(***************************************************************************)
C8_NoMatchCreatesPrimary ==
    [][status' = 200 =>
         LET email == args'[1]
             phoneNumber == args'[2]
             new == Len(contacts) + 1
         IN  (/\ ~HasEmail(contacts, Ids(contacts), email)
              /\ ~HasPhone(contacts, Ids(contacts), phoneNumber))
             => /\ Len(contacts') = new
                /\ contacts'[new] = [id |-> new, email |-> email,
                                     phoneNumber |-> phoneNumber, linkedId |-> NullId,
                                     linkPrecedence |-> "primary",
                                     createdAt |-> contacts'[new].createdAt]
                /\ \A id \in Ids(contacts) : contacts'[id] = contacts[id]
                /\ response'.primaryContatctId = new
                /\ response'.secondaryContactIds = << >>]_vars

\* A call matching none of the rows already stored has added a primary.
C8_Witness ==
    /\ Completed
    /\ Len(contacts) >= 2
    /\ Len(writes) = 1
    /\ \E w \in Creations :
           /\ w.linkedId = NullId
           /\ w.id = Len(contacts)
           /\ IsPrimary(contacts, w.id)
           /\ ~HasEmail(contacts, Ids(contacts) \ {w.id}, args[1])
           /\ ~HasPhone(contacts, Ids(contacts) \ {w.id}, args[2])
           /\ response.primaryContatctId = w.id
           /\ response.secondaryContactIds = << >>

(***************************************************************************)
(* C9: the response of every completed call lists exactly the distinct     *)
(* non-null emails, the distinct non-null phones and the ids of all        *)
(* non-primary rows of the canonical primary's group as stored when the    *)
(* call returns; in particular it contains the request's own non-null      *)
(* email and phone.                                                        *)
(***************************************************************************)
C9_ViewComplete ==
    Completed =>
        LET G == Group(contacts, response.primaryContatctId)
        IN  /\ Range(response.emails) = {contacts[r].email : r \in G} \ {Null}
            /\ Range(response.phoneNumbers) = {contacts[r].phoneNumber : r \in G} \ {Null}
            /\ Range(response.secondaryContactIds) = {r \in G : ~IsPrimary(contacts, r)}
            /\ NoDuplicates(response.secondaryContactIds)
            /\ args[1] # Null => args[1] \in Range(response.emails)
            /\ args[2] # Null => args[2] \in Range(response.phoneNumbers)

(***************************************************************************)
(* C10: in every response emails and phoneNumbers hold no duplicates;      *)
(* emails[0] is the canonical primary's own email when that is non-null,   *)
(* phoneNumbers[0] its own phone when that is non-null; the remaining      *)
(* values appear in the order their first-carrying secondary was created;  *)
(* and secondaryContactIds is in ascending creation order.                 *)
(***************************************************************************)
C10_ResponseOrdering ==
    Completed =>
        LET P == response.primaryContatctId
            emails == response.emails
            phones == response.phoneNumbers
            ids == response.secondaryContactIds
            e0 == IF contacts[P].email # Null THEN 1 ELSE 0
            p0 == IF contacts[P].phoneNumber # Null THEN 1 ELSE 0
        IN  /\ NoDuplicates(emails)
            /\ NoDuplicates(phones)
            /\ contacts[P].email # Null => (emails # << >> /\ emails[1] = contacts[P].email)
            /\ contacts[P].phoneNumber # Null
                   => (phones # << >> /\ phones[1] = contacts[P].phoneNumber)
            /\ \A i, j \in (e0 + 1)..Len(emails) :
                   i < j => FirstEmailCarrier(contacts, P, emails[i])
                                <= FirstEmailCarrier(contacts, P, emails[j])
            /\ \A i, j \in (p0 + 1)..Len(phones) :
                   i < j => FirstPhoneCarrier(contacts, P, phones[i])
                                <= FirstPhoneCarrier(contacts, P, phones[j])
            /\ \A i, j \in 1..Len(ids) :
                   i < j => contacts[ids[i]].createdAt <= contacts[ids[j]].createdAt

\* The last request was answered 200 and no request has started since.
Returned == Completed /\ \A p \in Procs : calls[p].pc = "idle"

(***************************************************************************)
(* C11: when a call failed after demoting primary D under C and before     *)
(* repointing D's children, the next completed call that matches a row of  *)
(* that group leaves it flat: every row of the returned primary's group,   *)
(* D's former children included, has linkedId equal to the primary's id    *)
(* and is listed in that call's secondaryContactIds.                       *)
(***************************************************************************)
C11_RepairedByNextCall ==
    Returned =>
        LET P == response.primaryContatctId
        IN  \A r \in Group(contacts, P) \ {P} :
                /\ contacts[r].linkedId = P
                /\ r \in Range(response.secondaryContactIds)

(***************************************************************************)
(* C12: when the two distinct primaries a call merges have the same        *)
(* createdAt, the one with the lower id stays primary and the other is     *)
(* demoted under it, in whatever order the store returns rows of equal     *)
(* createdAt.                                                              *)
(***************************************************************************)
C12_TieBreakById ==
    [][status' = 200 =>
          \A a, b \in MatchedPrimaries(contacts, args'[1], args'[2]) :
              (a < b /\ contacts[a].createdAt = contacts[b].createdAt) =>
                  /\ IsPrimary(contacts', a)
                  /\ ~IsPrimary(contacts', b)
                  /\ contacts'[b].linkedId = a]_vars

(***************************************************************************)
(* C13: no call deletes a row or changes the id, email, phoneNumber or     *)
(* createdAt of an existing row.  A row that changes is either a primary   *)
(* demoted to secondary with its linkedId set, or a secondary whose        *)
(* linkedId is repointed to the canonical primary, both only in a call     *)
(* that merges (one that demotes a primary); a secondary never becomes     *)
(* primary again.                                                          *)
(***************************************************************************)
C13_LifecycleFrame ==
    [][LET demoted == {r \in Ids(contacts) :
                          IsPrimary(contacts, r) /\ ~IsPrimary(contacts', r)}
       IN  /\ Len(contacts') >= Len(contacts)
           /\ \A r \in Ids(contacts) :
                 /\ contacts'[r].id = contacts[r].id
                 /\ contacts'[r].email = contacts[r].email
                 /\ contacts'[r].phoneNumber = contacts[r].phoneNumber
                 /\ contacts'[r].createdAt = contacts[r].createdAt
                 /\ ~IsPrimary(contacts, r) => ~IsPrimary(contacts', r)
                 /\ r \in demoted =>
                       /\ contacts'[r].linkPrecedence = "secondary"
                       /\ contacts'[r].linkedId = response'.primaryContatctId
                 /\ (r \notin demoted /\ contacts'[r] # contacts[r]) =>
                       /\ demoted # {}
                       /\ contacts[r].linkPrecedence = "secondary"
                       /\ contacts'[r] = [contacts[r] EXCEPT
                                            !.linkedId = response'.primaryContatctId]
                       /\ IsPrimary(contacts', response'.primaryContatctId)]_vars

\* A call merged two groups: it demoted a primary that had a child and repointed the
\* child to the canonical primary.
C13_Witness ==
    /\ Completed
    /\ \E w \in Demotions :
          \E u \in Range(writes) :
              /\ u.op = "updateMany"
              /\ u.id = w.id
              /\ u.rows # {}
              /\ \A r \in u.rows : contacts[r].linkedId = response.primaryContatctId

\* A field the request does not carry: missing, null or empty.
Absent(v) == v = Null \/ v = EmptyString

\* The handler takes a request with this body up to its first answer or await.
Receive(p, email, phoneNumber) ==
    \/ Reject(p, email, phoneNumber)
    \/ FindMatching(p, email, phoneNumber)
    \/ FirstReadFails(p, email, phoneNumber)

(***************************************************************************)
(* C14: a request that carries neither an email nor a phoneNumber is       *)
(* answered 400 without calling identifyContact and leaves the store       *)
(* unchanged; an answer 400 is never given once identifyContact was        *)
(* called; a call of identifyContact ends with 200, or with 500 when a     *)
(* store operation failed.                                                 *)
(***************************************************************************)
C14_InvalidInput ==
    [][/\ \A email \in RawEmails, phoneNumber \in RawPhones :
             (Absent(email) /\ Absent(phoneNumber) /\ Receive(1, email, phoneNumber)) =>
                 status' = 400 /\ contacts' = contacts /\ calls' = calls
       /\ (status' = 400 /\ status # 400) =>
             /\ contacts' = contacts
             /\ calls' = calls
             /\ calls[1].pc = "idle"
       /\ (calls[1].pc # "idle" /\ calls'[1].pc = "idle") =>
             /\ status' \in {200, 500}
             /\ status' = 200 => calls[1].pc = "respond" /\ response' # NoResponse
             /\ status' = 500 => response' = NoResponse /\ contacts' = contacts]_vars

\* A request with neither field was answered 400 on a store that an earlier failed
\* call (answered 500) left half merged.
C14_Witness ==
    /\ status = 400
    /\ \E r \in Ids(contacts) :
          /\ contacts[r].linkedId # NullId
          /\ contacts[contacts[r].linkedId].linkPrecedence = "secondary"

\* A secondary whose linkedId names a row that is itself secondary.
ChainedRows(cs) ==
    {r \in Ids(cs) : /\ cs[r].linkedId \in Ids(cs)
                     /\ cs[r].linkPrecedence = "secondary"
                     /\ cs[cs[r].linkedId].linkPrecedence = "secondary"}

\* The call in slot p holds as canonical primary a row that another call has demoted
\* since the call resolved it.
StaleCanonical(p) ==
    /\ calls[p].pc \in {"update", "respond"}
    /\ contacts[calls[p].primaries[1].id].linkPrecedence = "secondary"

(***************************************************************************)
(* C15: when the store operations of two calls on overlapping groups       *)
(* interleave, the group invariant breaks: a call that demotes a primary   *)
(* under a canonical primary another call has demoted meanwhile leaves a   *)
(* secondary whose linkedId names a secondary, and a call that returns     *)
(* such a canonical primary returns as primaryContatctId the id of a row   *)
(* that is secondary in the store when the call returns.                   *)
(***************************************************************************)
C15_ConcurrencyGap ==
    [][\A p \in Procs :
          /\ (StaleCanonical(p) /\ Demote(p)) =>
                calls[p].primaries[calls[p].i].id \in ChainedRows(contacts')
          /\ (StaleCanonical(p) /\ Respond(p)) =>
                /\ status' = 200
                /\ ~IsPrimary(contacts', response'.primaryContatctId)]_vars

\* Both calls have returned; the last one returned the id of a row that is secondary
\* in the store, and a secondary's linkedId names that secondary.
C15_Witness ==
    /\ Returned
    /\ ~IsPrimary(contacts, response.primaryContatctId)
    /\ \E r \in ChainedRows(contacts) : contacts[r].linkedId = response.primaryContatctId

\* createdAt strictly increases with creation order, i.e. with the id.
StrictlyIncreasing(cs) == \A i, j \in Ids(cs) : i < j => cs[i].createdAt < cs[j].createdAt

(***************************************************************************)
(* C17: provided createdAt strictly increases with creation order, under   *)
(* every interleaving every row with a non-null linkedId has a strictly    *)
(* larger createdAt than the row its linkedId names; so following linkedId *)
(* from any row ends at a row without linkedId, and every findUnique of    *)
(* findPrimaryContact's loop moves to a row of strictly smaller createdAt. *)
(***************************************************************************)
C17_NoCycle ==
    StrictlyIncreasing(contacts) =>
        /\ \A r \in Ids(contacts) :
              contacts[r].linkedId # NullId =>
                  /\ contacts[r].linkedId \in Ids(contacts)
                  /\ contacts[contacts[r].linkedId].createdAt < contacts[r].createdAt
        /\ \A r \in Ids(contacts) :
              findPrimaryContact(contacts, contacts[r]).linkedId = NullId
        /\ \A p \in Procs :
              calls[p].pc = "findUnique" =>
                  /\ calls[p].current.linkedId \in Ids(contacts)
                  /\ contacts[calls[p].current.linkedId].createdAt
                        < calls[p].current.createdAt

\* While one call is between its two merge writes, the other call's findPrimaryContact
\* stands on a row whose parent is itself secondary: a chain of two links to walk.
C17_Witness ==
    \E p, q \in Procs :
        /\ calls[p].pc = "findUnique"
        /\ calls[q].pc = "updateMany"
        /\ calls[p].current.id \in ChainedRows(contacts)

(***************************************************************************)
(* C18: in every reachable state, with calls interleaved and calls failing *)
(* between two writes, a row is primary exactly when its linkedId is null, *)
(* and every non-null linkedId is the id of an existing row: no findUnique *)
(* of findPrimaryContact misses the parent.                                *)
(***************************************************************************)
C18_LinksWellFormed ==
    /\ \A r \in Ids(contacts) :
          /\ IsPrimary(contacts, r) <=> contacts[r].linkedId = NullId
          /\ contacts[r].linkPrecedence \in {"primary", "secondary"}
          /\ contacts[r].linkedId # NullId => contacts[r].linkedId \in Ids(contacts)
    /\ \A p \in Procs :
          calls[p].pc = "findUnique" => calls[p].current.linkedId \in Ids(contacts)

\* A call failed between update and updateMany while the other call, which resolved
\* its primaries before that demotion, is about to write.
C18_Witness ==
    /\ status = 500
    /\ ChainedRows(contacts) # {}
    /\ \E p \in Procs : StaleCanonical(p) /\ calls[p].pc = "update"

\* No stored field is the empty string: every call so far had null or non-empty inputs.
NoBlankStored(cs) ==
    \A r \in Ids(cs) : cs[r].email # EmptyString /\ cs[r].phoneNumber # EmptyString

(***************************************************************************)
(* C16: after every completed call of a sequential run from the empty      *)
(* store whose inputs are non-empty strings, any two rows that share a     *)
(* non-null email or a non-null phoneNumber resolve to the same primary.   *)
(***************************************************************************)
C16_OneCustomerOneGroup ==
    (Completed /\ NoBlankStored(contacts)) =>
        \A r1, r2 \in Ids(contacts) :
            (\/ contacts[r1].email # Null /\ contacts[r1].email = contacts[r2].email
             \/ /\ contacts[r1].phoneNumber # Null
                /\ contacts[r1].phoneNumber = contacts[r2].phoneNumber) =>
                findPrimaryContact(contacts, contacts[r1]).id
                    = findPrimaryContact(contacts, contacts[r2]).id

\* Two rows share an email or a phoneNumber in a group that the last call merged
\* with another one by demoting its primary.
C16_Witness ==
    /\ Completed
    /\ NoBlankStored(contacts)
    /\ \E r1, r2 \in Ids(contacts) :
          /\ r1 # r2
          /\ \/ contacts[r1].email # Null /\ contacts[r1].email = contacts[r2].email
             \/ /\ contacts[r1].phoneNumber # Null
                /\ contacts[r1].phoneNumber = contacts[r2].phoneNumber
    /\ Demotions # {}

\* Sending this body now creates no row.
CreatesNothing(email, phoneNumber) ==
    Len(identifyContact(contacts, order, Normalize(email), Normalize(phoneNumber), now).cs)
        = Len(contacts)

\* identifyContact given the empty string for a field creates a row exactly when it
\* does given null for that field.
BlankLikeAbsent(email, phoneNumber) ==
    LET e == Normalize(email)
        p == Normalize(phoneNumber)
        blank(v) == IF v = EmptyString THEN Null ELSE v
    IN  (Truthy(e) \/ Truthy(p)) =>
            Len(identifyContact(contacts, order, e, p, now).cs)
                = Len(identifyContact(contacts, order, blank(e), blank(p), now).cs)

(***************************************************************************)
(* C19: for every accepted request body, also one with a whitespace-only   *)
(* field next to a real one, sending the same body a second time creates   *)
(* no further row; a field trimmed to the empty string is treated like an  *)
(* absent field when matching and when deciding on new information.        *)
(***************************************************************************)
C19_HttpIdempotent ==
    [][\A email \in RawEmails, phoneNumber \in RawPhones :
          PostIdentify(email, phoneNumber) =>
              /\ CreatesNothing(email, phoneNumber)'
              /\ BlankLikeAbsent(email, phoneNumber)']_vars

(***************************************************************************)
(* C20: in a sequential run from the empty store the rows a call matches   *)
(* resolve to at most two distinct primaries; a call demotes at most one   *)
(* primary, creates at most one row, and never does both.                  *)
(***************************************************************************)
C20_BoundedEffect ==
    [][status' = 200 =>
          LET demoted == {r \in Ids(contacts) :
                             IsPrimary(contacts, r) /\ ~IsPrimary(contacts', r)}
              created == Ids(contacts') \ Ids(contacts)
          IN  /\ Cardinality(MatchedPrimaries(contacts, args'[1], args'[2])) <= 2
              /\ Cardinality(demoted) <= 1
              /\ Cardinality(created) <= 1
              /\ demoted = {} \/ created = {}]_vars

\* The last call matched two of the three primaries of the store: it demoted one of
\* them, created no row and left the third group alone.
C20_Witness ==
    /\ Completed
    /\ Cardinality(Demotions) = 1
    /\ Creations = {}
    /\ \E r \in Ids(contacts) : IsPrimary(contacts, r) /\ r # response.primaryContatctId

=============================================================================
